---- MODULE Spec2Model ----
(***************************************************************************)
(* Fixed-width encoder of go-fixedwidth (encode.go).                        *)
(*                                                                         *)
(* A byte is a one-character string, a []byte a sequence of them.          *)
(* A reflect.Type is a record                                              *)
(*    [kind, tm, name, elem, fields]                                       *)
(* kind   : the reflect.Kind ("String", "Int", ..., "Ptr", "Struct")       *)
(* tm     : the type implements encoding.TextMarshaler                     *)
(* name   : Type.Name() ("" for unnamed types such as *T and []T)          *)
(* elem   : <<t>> for a Ptr or a Slice of t, <<>> otherwise                *)
(* fields : the struct fields, each [tag, type], tag the text of the       *)
(*          `fixed:"..."` struct tag ("" when the field has none)          *)
(* A reflect.Value is a record                                             *)
(*    [type, isNil, s, n, err, elem, items]                                *)
(* isNil  : a nil pointer or a nil interface                               *)
(* s      : the text of a string, or the bytes MarshalText returns         *)
(* n      : an integer's value; a float's value in eighths (n/8), which    *)
(*          are exact in binary floating point                             *)
(* err    : the error MarshalText returns                                  *)
(* elem   : <<v>> the value a pointer points to or an interface holds      *)
(* items  : the field values of a struct, the elements of a slice          *)
(***************************************************************************)
EXTENDS Integers, Sequences, FiniteSets, TLC

\* ------------------------------------------------------------------ bounds

\* Largest column a position tag names.
MaxPos == 3

\* Most fields of a struct.
MaxFields == 2

\* Most elements of a slice given to Encode or Marshal.
MaxLines == 2

\* Size of the bufio.Writer's buffer (4096 in bufio, scaled down).
BufSize == 4

\* ------------------------------------------------------------------- bytes

SP == " "
LF == "\n"

DigitChars == <<"0", "1", "2", "3", "4", "5", "6", "7", "8", "9">>

RECURSIVE Repeat(_, _)
\* bytes.Repeat([]byte{c}, n)
Repeat(c, n) == IF n <= 0 THEN <<>> ELSE <<c>> \o Repeat(c, n - 1)

Min(a, b) == IF a < b THEN a ELSE b

RECURSIVE natDigits(_)
natDigits(n) ==
  IF n < 10 THEN <<DigitChars[n + 1]>>
  ELSE natDigits(n \div 10) \o <<DigitChars[(n % 10) + 1]>>

\* strconv.Itoa
Itoa(n) == IF n < 0 THEN <<"-">> \o natDigits(-n) ELSE natDigits(n)

\* strconv.FormatFloat(f, 'f', 2, bitSize) of f = e/8: f is rounded to the
\* nearest hundredth, an exact tie to the even one (100*f = 12.5*e is a tie
\* exactly when e is odd).
FormatFloat2(e) ==
  LET a    == IF e < 0 THEN -e ELSE e
      lo   == (25 * a) \div 2
      h    == IF (25 * a) % 2 = 0 THEN lo
              ELSE IF lo % 2 = 0 THEN lo ELSE lo + 1
      frac == h % 100
      body == natDigits(h \div 100) \o <<".">>
              \o <<DigitChars[(frac \div 10) + 1], DigitChars[(frac % 10) + 1]>>
  IN IF e < 0 THEN <<"-">> \o body ELSE body

\* ------------------------------------------------------------------ errors

NoErr == [kind |-> "none", name |-> ""]

\* &MarshalInvalidTypeError{typeName: t.Name()}
InvalidType(t) == [kind |-> "InvalidType", name |-> t.name]

\* A run-time panic (a value method called through a nil pointer).
Panic == [kind |-> "panic", name |-> "nil pointer dereference"]

Result(b, e) == [bytes |-> b, err |-> e]

\* ------------------------------------------------------------ position tags

Comma == ","
LeftpadToken == <<"l", "e", "f", "t", "p", "a", "d">>

RECURSIVE Split(_)
\* strings.Split(tag, ",")
Split(s) ==
  IF \A i \in 1..Len(s) : s[i] # Comma THEN <<s>>
  ELSE LET k == CHOOSE i \in 1..Len(s) :
                  s[i] = Comma /\ \A j \in 1..(i - 1) : s[j] # Comma
       IN <<SubSeq(s, 1, k - 1)>> \o Split(SubSeq(s, k + 1, Len(s)))

IsNumber(tok) ==
  /\ Len(tok) > 0
  /\ \A i \in 1..Len(tok) : \E d \in 1..10 : DigitChars[d] = tok[i]

RECURSIVE Atoi(_)
Atoi(tok) ==
  IF Len(tok) = 0 THEN 0
  ELSE Atoi(SubSeq(tok, 1, Len(tok) - 1)) * 10
       + ((CHOOSE d \in 1..10 : DigitChars[d] = tok[Len(tok)]) - 1)

\* parseTag: "<start>,<end>[,leftpad]" to a fieldSpec with an empty value;
\* ok = FALSE is the error that makes structEncoder skip the field (no tag,
\* wrong token count, non-numeric bound, end < start).
parseTag(tag) ==
  LET toks == Split(tag)
      bad  == [ok |-> FALSE, startPos |-> 0, endPos |-> 0, leftpad |-> FALSE,
               value |-> <<>>]
  IN IF Len(toks) \notin {2, 3} THEN bad
     ELSE IF ~IsNumber(toks[1]) \/ ~IsNumber(toks[2]) THEN bad
     ELSE IF Len(toks) = 3 /\ toks[3] # LeftpadToken THEN bad
     ELSE IF Atoi(toks[2]) < Atoi(toks[1]) THEN bad
     ELSE [ok |-> TRUE, startPos |-> Atoi(toks[1]), endPos |-> Atoi(toks[2]),
           leftpad |-> (Len(toks) = 3), value |-> <<>>]

\* fieldSpec.fieldLength
fieldLength(f) == f.endPos - f.startPos + 1

\* ---------------------------------------------------------- leaf encoders

IntKinds == {"Int", "Int64", "Int32", "Int16", "Int8"}
FloatKinds == {"Float64", "Float32"}

\* v.Interface().(encoding.TextMarshaler).MarshalText(); the method has a
\* value receiver, so calling it through a nil pointer panics.
textMarshalerEncoder(v) ==
  IF v.type.kind = "Ptr" /\ v.isNil THEN Result(<<>>, Panic)
  ELSE LET m == IF v.type.kind = "Ptr" THEN v.elem[1] ELSE v
       IN IF m.err.kind # "none" THEN Result(<<>>, m.err)
          ELSE Result(m.s, NoErr)

stringEncoder(v) == Result(v.s, NoErr)

intEncoder(v) == Result(Itoa(v.n), NoErr)

floatEncoder(v) == Result(FormatFloat2(v.n), NoErr)

\* a nil pointer encoded as a zero instead of omitted
nilEncoder_zero(v) == Result(<<"0">>, NoErr)

nilEncoder(v) == Result(<<>>, NoErr)

\* a value of an unknown type ignored instead of refused
unknownTypeEncoder_ignore(t) == Result(<<>>, NoErr)

unknownTypeEncoder(t) == Result(<<>>, InvalidType(t))

\* leftpadChar without the reflect.Ptr case
leftpadChar_noPtr(t) ==
  IF t.tm THEN SP
  ELSE IF t.kind \in IntKinds \cup FloatKinds THEN "0"
  ELSE SP

RECURSIVE leftpadChar(_)
\* fieldSpec.leftpadChar
leftpadChar(t) ==
  IF t.tm THEN SP
  ELSE IF t.kind = "Ptr" THEN leftpadChar(t.elem[1])
  ELSE IF t.kind \in IntKinds \cup FloatKinds THEN "0"
  ELSE SP

\* copy(data[spec.startPos-1:], spec.value): the slice not cut at endPos
copyField_unbounded(data, spec) ==
  [p \in 1..Len(data) |->
     IF p >= spec.startPos /\ p - spec.startPos + 1 <= Len(spec.value)
     THEN spec.value[p - spec.startPos + 1]
     ELSE data[p]]

\* copy(data[spec.startPos-1:spec.endPos], spec.value)
copyField(data, spec) ==
  [p \in 1..Len(data) |->
     IF /\ p >= spec.startPos
        /\ p <= spec.endPos
        /\ p - spec.startPos + 1 <= Len(spec.value)
     THEN spec.value[p - spec.startPos + 1]
     ELSE data[p]]

\* ll = spec.endPos without the comparison: the last spec's endPos
maxEndPos_last(specs) == IF Len(specs) = 0 THEN 0 ELSE specs[Len(specs)].endPos

RECURSIVE maxEndPos(_)
\* first loop of encodeSpecs
maxEndPos(specs) ==
  IF Len(specs) = 0 THEN 0
  ELSE LET m == maxEndPos(SubSeq(specs, 1, Len(specs) - 1))
       IN IF specs[Len(specs)].endPos > m THEN specs[Len(specs)].endPos ELSE m

RECURSIVE encodeSpecsUpTo(_, _)
\* the buffer of encodeSpecs after its second loop copied the first k specs
encodeSpecsUpTo(specs, k) ==
  IF k = 0 THEN Repeat(SP, maxEndPos(specs))
  ELSE copyField(encodeSpecsUpTo(specs, k - 1), specs[k])

encodeSpecs(specs) == encodeSpecsUpTo(specs, Len(specs))

\* lines 173-178 of structEncoder: the bytes recorded for the field
padValue(spec, t, value) ==
  IF Len(value) < fieldLength(spec) /\ spec.leftpad
  THEN Repeat(leftpadChar(t), fieldLength(spec) - Len(value)) \o value
  ELSE value

RECURSIVE newValueEncoder(_, _)
RECURSIVE structSpecs(_, _)

\* The loop of structEncoder from field i on: [specs, err], err the first
\* error a field with an accepted tag raises. Beside the fieldSpec each
\* entry records the field it came from (field) and the bytes the field's
\* encoder produced before padding (raw).
structSpecs(v, i) ==
  IF i > Len(v.type.fields) THEN [specs |-> <<>>, err |-> NoErr]
  ELSE LET f    == v.type.fields[i]
           spec == parseTag(f.tag)
       IN IF ~spec.ok THEN structSpecs(v, i + 1)
          ELSE LET r == newValueEncoder(f.type, v.items[i])
               IN IF r.err.kind # "none" THEN [specs |-> <<>>, err |-> r.err]
                  ELSE LET rest == structSpecs(v, i + 1)
                           me   == [ok |-> TRUE, startPos |-> spec.startPos,
                                    endPos |-> spec.endPos, leftpad |-> spec.leftpad,
                                    value |-> padValue(spec, f.type, r.bytes),
                                    field |-> i, raw |-> r.bytes]
                       IN IF rest.err.kind # "none" THEN rest
                          ELSE [specs |-> <<me>> \o rest.specs, err |-> NoErr]

structEncoder(v) ==
  LET r == structSpecs(v, 1)
  IN IF r.err.kind # "none" THEN Result(<<>>, r.err)
     ELSE Result(encodeSpecs(r.specs), NoErr)

ptrInterfaceEncoder(v) ==
  IF v.isNil THEN nilEncoder(v)
  ELSE newValueEncoder(v.elem[1].type, v.elem[1])

\* newValueEncoder with the struct case tried before the TextMarshaler test
newValueEncoder_structFirst(t, v) ==
  IF t.kind = "Nil" THEN nilEncoder(v)
  ELSE IF t.kind = "Struct" THEN structEncoder(v)
  ELSE IF t.tm THEN textMarshalerEncoder(v)
  ELSE IF t.kind \in {"Ptr", "Interface"} THEN ptrInterfaceEncoder(v)
  ELSE IF t.kind = "String" THEN stringEncoder(v)
  ELSE IF t.kind \in IntKinds THEN intEncoder(v)
  ELSE IF t.kind \in FloatKinds THEN floatEncoder(v)
  ELSE unknownTypeEncoder(t)

\* newValueEncoder(t)(v)
newValueEncoder(t, v) ==
  IF t.kind = "Nil" THEN nilEncoder(v)
  ELSE IF t.tm THEN textMarshalerEncoder(v)
  ELSE IF t.kind \in {"Ptr", "Interface"} THEN ptrInterfaceEncoder(v)
  ELSE IF t.kind = "Struct" THEN structEncoder(v)
  ELSE IF t.kind = "String" THEN stringEncoder(v)
  ELSE IF t.kind \in IntKinds THEN intEncoder(v)
  ELSE IF t.kind \in FloatKinds THEN floatEncoder(v)
  ELSE unknownTypeEncoder(t)

\* ------------------------------------------------------------ bufio.Writer

\* The writer of a call: buf the bytes buffered and not yet given to the
\* sink, out the bytes the sink received during the call, log every byte
\* the call passed to Write. The sink accepts every write (a bytes.Buffer).
Writer(pending) == [buf |-> pending, out |-> <<>>, log |-> <<>>]

RECURSIVE bufioWrite(_, _)
\* (*bufio.Writer).Write
bufioWrite(w, p) ==
  IF Len(p) > BufSize - Len(w.buf)
  THEN IF Len(w.buf) = 0
       THEN [w EXCEPT !.out = @ \o p, !.log = @ \o p]
       ELSE LET n == BufSize - Len(w.buf)
            IN bufioWrite([buf |-> <<>>,
                           out |-> w.out \o w.buf \o SubSeq(p, 1, n),
                           log |-> w.log \o SubSeq(p, 1, n)],
                          SubSeq(p, n + 1, Len(p)))
  ELSE [w EXCEPT !.buf = @ \o p, !.log = @ \o p]

\* (*bufio.Writer).Flush
bufioFlush(w) == [w EXCEPT !.out = @ \o w.buf, !.buf = <<>>]

\* ---------------------------------------------------------------- Encoder

\* lines 123-127 of writeLine: r is what the value's encoder returned
writeEncoded(w, r) ==
  IF r.err.kind # "none" THEN [w |-> w, err |-> r.err]
  ELSE [w |-> bufioWrite(w, r.bytes), err |-> NoErr]

\* writeLine with the encoder's error dropped: the element is skipped
writeLine_skip(w, v) ==
  writeEncoded(w, [newValueEncoder(v.type, v) EXCEPT !.err = NoErr])

\* Encoder.writeLine
writeLine(w, v) == writeEncoded(w, newValueEncoder(v.type, v))

\* writeLines with the Encoder's LineEnd never read
effectiveLineEnd_default(le) == <<LF>>

\* lines 101-104 of writeLines
effectiveLineEnd(le) == IF Len(le) = 0 THEN <<LF>> ELSE le

\* the terminator written after every element
notLast_always(i, n) == TRUE

\* line 111 of writeLines: element i of n (counted from 1) is not the last
notLast(i, n) == i # n

RECURSIVE writeLinesFrom(_, _, _, _)
\* lines 109-116 of writeLines: r is what writeLine returned for element i
afterLine(r, lineEnd, v, i) ==
  IF r.err.kind # "none" THEN r
  ELSE writeLinesFrom(
         IF notLast(i, Len(v.items)) THEN bufioWrite(r.w, lineEnd) ELSE r.w,
         lineEnd, v, i + 1)

\* the loop of writeLines from element i on
writeLinesFrom(w, lineEnd, v, i) ==
  IF i > Len(v.items) THEN [w |-> w, err |-> NoErr]
  ELSE afterLine(writeLine(w, v.items[i]), lineEnd, v, i)

\* Encoder.writeLines
writeLines(w, le, v) == writeLinesFrom(w, effectiveLineEnd(le), v, 1)

RECURSIVE unwrap(_)
\* lines 83-86 of Encode: v.Elem() through pointers and interfaces; the Elem
\* of a nil pointer is the zero Value, of Kind Invalid.
unwrap(v) ==
  IF v.type.kind \in {"Ptr", "Interface"}
  THEN IF v.isNil THEN [v EXCEPT !.type.kind = "Invalid"] ELSE unwrap(v.elem[1])
  ELSE v

\* lines 82-93 of Encode: a slice behind pointers and interfaces is written
\* as lines, anything else as one line
encodeValue(w, le, i) ==
  IF unwrap(i).type.kind = "Slice" THEN writeLines(w, le, unwrap(i))
  ELSE writeLine(w, i)

\* lines 94-97 of Encode: r is what writeLines or writeLine returned
flushUnlessError(r) ==
  IF r.err.kind # "none" THEN r
  ELSE [w |-> bufioFlush(r.w), err |-> NoErr]

\* Encode without the final e.w.Flush()
Encode_noFlush(w, le, i) ==
  IF i.type.kind = "Nil" THEN [w |-> w, err |-> NoErr]
  ELSE encodeValue(w, le, i)

\* Encoder.Encode on an Encoder whose writer is w and whose LineEnd is le:
\* the writer afterwards and the error returned.
Encode(w, le, i) ==
  IF i.type.kind = "Nil" THEN [w |-> w, err |-> NoErr]
  ELSE flushUnlessError(encodeValue(w, le, i))

\* lines 42-45 of Marshal: r is what Encode returned over the bytes.Buffer
marshalReturn(r) ==
  [w |-> r.w,
   ret |-> IF r.err.kind # "none" THEN Result(<<>>, r.err)
           ELSE Result(r.w.out, NoErr)]

\* Marshal: a fresh Encoder (NewEncoder: empty writer, LineEnd "\n") over a
\* fresh bytes.Buffer.
Marshal(v) == marshalReturn(Encode(Writer(<<>>), <<LF>>, v))

\* ------------------------------------------------------- types and values

T(kind, tm, name, elem, fields) ==
  [kind |-> kind, tm |-> tm, name |-> name, elem |-> elem, fields |-> fields]

V(type, isNil, s, n, err, elem, items) ==
  [type |-> type, isNil |-> isNil, s |-> s, n |-> n, err |-> err,
   elem |-> elem, items |-> items]

NilT == T("Nil", FALSE, "", <<>>, <<>>)
StringT == T("String", FALSE, "string", <<>>, <<>>)
IntT == T("Int", FALSE, "int", <<>>, <<>>)
Int8T == T("Int8", FALSE, "int8", <<>>, <<>>)
Float64T == T("Float64", FALSE, "float64", <<>>, <<>>)
Float32T == T("Float32", FALSE, "float32", <<>>, <<>>)
BoolT == T("Bool", FALSE, "bool", <<>>, <<>>)
IfaceT == T("Interface", FALSE, "", <<>>, <<>>)
\* *t has every method of a non-pointer t: it implements TextMarshaler
\* when t does.
PtrT(t) == T("Ptr", t.tm /\ t.kind # "Ptr", "", <<t>>, <<>>)
SliceT(t) == T("Slice", FALSE, "", <<t>>, <<>>)
StructT(name, fields) == T("Struct", FALSE, name, <<>>, fields)
Field(tag, t) == [tag |-> tag, type |-> t]

\* Encode(nil): the nil interface, reflect.TypeOf(nil) == nil
NilV == V(NilT, TRUE, <<>>, 0, NoErr, <<>>, <<>>)
StringV(s) == V(StringT, FALSE, s, 0, NoErr, <<>>, <<>>)
NumV(t, n) == V(t, FALSE, <<>>, n, NoErr, <<>>, <<>>)
BoolV == V(BoolT, FALSE, <<>>, 1, NoErr, <<>>, <<>>)
PtrTo(v) == V(PtrT(v.type), FALSE, <<>>, 0, NoErr, <<v>>, <<>>)
NilPtr(t) == V(PtrT(t), TRUE, <<>>, 0, NoErr, <<>>, <<>>)
Iface(v) == V(IfaceT, FALSE, <<>>, 0, NoErr, <<v>>, <<>>)
NilIface == V(IfaceT, TRUE, <<>>, 0, NoErr, <<>>, <<>>)
SliceV(t, items) == V(SliceT(t), FALSE, <<>>, 0, NoErr, <<>>, items)
\* a struct value whose fields are the (tag, value) pairs fs
StructV(name, fs) ==
  V(StructT(name, [i \in 1..Len(fs) |-> Field(fs[i][1], fs[i][2].type)]),
    FALSE, <<>>, 0, NoErr, <<>>, [i \in 1..Len(fs) |-> fs[i][2]])

\* "<s>,<e>" and "<s>,<e>,leftpad"
TagOf(s, e, lp) ==
  natDigits(s) \o <<Comma>> \o natDigits(e)
  \o (IF lp THEN <<Comma>> \o LeftpadToken ELSE <<>>)

NoTag == <<>>

\* Types with a MarshalText method (value receiver), such as the tests'
\* EncodableString: a struct with a position-tagged field, and an integer.
TextStructT ==
  T("Struct", TRUE, "EncodableString", <<>>, <<Field(TagOf(1, 2, FALSE), StringT)>>)
TextIntT == T("Int", TRUE, "Code", <<>>, <<>>)
TextBytesT == T("Slice", TRUE, "IP", <<T("Uint8", FALSE, "uint8", <<>>, <<>>)>>, <<>>)

MarshalErr == [kind |-> "Marshal", name |-> "marshal error"]

\* a value of a self-serializing type whose MarshalText returns (s, err)
TextV(t, s, err) ==
  V(t, FALSE, s, 5, err, <<>>,
    IF t.kind = "Struct" THEN <<StringV(<<"q">>)>>
    ELSE IF t.kind = "Slice" THEN <<NumV(t.elem[1], 9)>> ELSE <<>>)

\* ------------------------------------------------------------------ inputs

\* every sequence over S of length at most n
SeqsUpTo(S, n) == UNION {[1..k -> S] : k \in 0..n}

\* the well-formed position tags: 1 <= start <= end <= MaxPos
ValidTags ==
  {TagOf(a, b, lp) : <<a, b, lp>> \in
     {t \in (1..MaxPos) \X (1..MaxPos) \X BOOLEAN : t[1] <= t[2]}}

\* no tag, one token, four tokens, a non-numeric bound, end < start
MalformedTags ==
  { NoTag, <<"5">>, <<"1", Comma, "2", Comma, "3", Comma, "4">>,
    <<"a", Comma, "2">>, <<"1", Comma, "b">>,
    TagOf(2, 1, FALSE), TagOf(MaxPos, 1, TRUE) }

Abc == <<"a", "b">>
Wxyz == <<"w", "x", "y", "z">>

\* a struct holding one text column, and structs holding a boolean
Inner == StructV("Inner", <<<<TagOf(1, 2, FALSE), StringV(<<"q">>)>>>>)
InnerBad == StructV("InnerBad", <<<<TagOf(1, 1, FALSE), BoolV>>>>)
InnerSkip == StructV("InnerSkip", <<<<NoTag, BoolV>>, <<TagOf(1, 1, FALSE), StringV(<<"k">>)>>>>)

\* values of every shape the dispatcher tells apart
ShapeVals ==
  { StringV(<<>>), StringV(Wxyz), NumV(IntT, 0), NumV(Int8T, -12),
    NumV(Float64T, 0), NumV(Float32T, 1), NumV(Float64T, -11),
    NilPtr(IntT), PtrTo(NumV(IntT, 7)), NilPtr(StringT), NilPtr(PtrT(IntT)),
    NilPtr(Float64T), NilPtr(BoolT), NilPtr(StructT("Inner", Inner.type.fields)),
    NilIface, Iface(NumV(IntT, 7)), Iface(BoolV),
    BoolV, PtrTo(BoolV), SliceV(StringT, <<StringV(<<"a">>), StringV(<<"b">>)>>),
    TextV(TextStructT, <<"x", "y">>, NoErr), TextV(TextStructT, <<"x">>, MarshalErr),
    TextV(TextIntT, <<"z", "9">>, NoErr), TextV(TextBytesT, <<"i", "p">>, NoErr),
    NilPtr(TextStructT), PtrTo(TextV(TextStructT, <<"p", "t">>, NoErr)),
    Inner, InnerBad, InnerSkip, PtrTo(InnerBad), Iface(Inner) }

\* the shapes that also stand beside other fields
FieldVals ==
  { StringV(<<>>), NumV(IntT, 0), NumV(Int8T, -12), NumV(Float64T, 0),
    NumV(Float32T, 1), NilPtr(IntT), PtrTo(NumV(IntT, 7)), NilPtr(StringT),
    NilPtr(PtrT(IntT)), NilIface, Iface(NumV(IntT, 7)), BoolV,
    TextV(TextStructT, <<"x", "y">>, NoErr), TextV(TextStructT, <<"x">>, MarshalErr),
    TextV(TextIntT, <<"z", "9">>, NoErr), NilPtr(TextStructT), Inner, InnerBad }

\* a text under every tag
TextFields ==
  {<<tag, StringV(Abc)>> : tag \in ValidTags \cup {NoTag, <<"5">>, TagOf(2, 1, FALSE)}}
  \cup {<<NoTag, BoolV>>}

\* an integer under every well-formed tag, beside a text
IntFields ==
  {<<tag, NumV(IntT, 7)>> : tag \in ValidTags}
  \cup {<<TagOf(1, MaxPos, FALSE), StringV(Wxyz)>>, <<TagOf(2, 2, TRUE), StringV(Abc)>>,
        <<<<"a", Comma, "2">>, BoolV>>}

\* every shape right-aligned in the last two columns, some shapes
\* left-aligned in the first two
ShapeFields ==
  {<<TagOf(MaxPos - 1, MaxPos, TRUE), v>> : v \in FieldVals}
  \cup {<<TagOf(1, 2, FALSE), v>> :
          v \in {NilPtr(IntT), NilIface, NumV(IntT, 0), NumV(Float64T, 0),
                 TextV(TextStructT, <<"x", "y">>, NoErr)}}
  \cup {<<TagOf(2, 1, FALSE), PtrTo(BoolV)>>}

\* one field alone: every shape, and a text under every malformed tag
LoneFields ==
  {<<TagOf(1, MaxPos, lp), v>> : lp \in BOOLEAN, v \in ShapeVals}
  \cup {<<tag, StringV(Abc)>> : tag \in MalformedTags}

Structs ==
  {StructV("H", fs) :
     fs \in SeqsUpTo(TextFields, MaxFields) \cup SeqsUpTo(IntFields, MaxFields)
            \cup SeqsUpTo(ShapeFields, MaxFields) \cup {<<f>> : f \in LoneFields}}

\* what newValueEncoder and Marshal are applied to
ValueInputs == Structs \cup ShapeVals \cup {NilV}

\* the elements of most []interface{} given to Encode: one that encodes and
\* one that does not
Elems == {Iface(StringV(<<"a">>)), Iface(BoolV)}

Row == Iface(StructV("H", <<<<TagOf(1, 2, FALSE), StringV(Abc)>>>>))
FailingText == Iface(TextV(TextStructT, <<"x">>, MarshalErr))

Slices ==
  {SliceV(IfaceT, items) :
     items \in SeqsUpTo(Elems, MaxLines)
               \cup { <<Iface(StringV(<<"a">>)), Row>>, <<Row, Iface(StringV(<<"a">>))>>,
                      <<Row, Iface(BoolV)>>,
                      <<Iface(StringV(<<"a">>)), FailingText>>,
                      <<FailingText, Iface(BoolV)>>,
                      <<Iface(BoolV), FailingText>>,
                      <<NilIface, Iface(StringV(<<"a">>))>> }}

\* what Encode and Marshal are given on a stream
StreamInputs ==
  Slices \cup
  { NilV, BoolV, Inner,
    TextV(TextStructT, <<"x", "y">>, NoErr), TextV(TextStructT, <<"x">>, MarshalErr),
    TextV(TextBytesT, <<"i", "p">>, NoErr),
    NilPtr(StringT), NilPtr(TextStructT),
    PtrTo(SliceV(StringT, <<StringV(<<"a">>), StringV(<<"b">>)>>)) }

LineEnds == {<<>>, <<LF>>, <<"\r", LF>>}

\* ------------------------------------------------------------------- state

VARIABLES
  LineEnd,    \* Encoder.LineEnd
  buf,        \* Encoder.w: the bytes buffered and not yet given to the sink
  op,         \* the last call: "none", "NewEncoder", "LineEnd", "Encode",
              \* "Marshal", "newValueEncoder"
  arg,        \* the value the last call was given
  ret,        \* what the last call returned: [bytes, err]
  pending,    \* the bytes Encoder.w held buffered when the last call began
  written,    \* the bytes the last call passed to Encoder.w.Write
  delivered,  \* the bytes the sink received during the last call
  asm         \* structEncoder's assembly in the last call of newValueEncoder
              \* on a struct: the fieldSpecs and the buffer after each copy

vars == <<LineEnd, buf, op, arg, ret, pending, written, delivered, asm>>

NoAsm == [specs |-> <<>>, steps |-> <<>>]

\* the fieldSpecs structEncoder collects for v and the line buffer of
\* encodeSpecs before the first copy and after each one
assembly(v) ==
  LET r == structSpecs(v, 1)
  IN IF v.type.kind # "Struct" \/ v.type.tm \/ r.err.kind # "none" THEN NoAsm
     ELSE [specs |-> r.specs,
           steps |-> [k \in 1..(Len(r.specs) + 1) |-> encodeSpecsUpTo(r.specs, k - 1)]]

\* NewEncoder(w) over an empty sink
NewEncoder ==
  /\ LineEnd' = <<LF>>
  /\ buf' = <<>>
  /\ op' = "NewEncoder"
  /\ arg' = NilV
  /\ ret' = Result(<<>>, NoErr)
  /\ pending' = <<>>
  /\ written' = <<>>
  /\ delivered' = <<>>
  /\ asm' = NoAsm

\* enc.LineEnd = le
SetLineEnd(le) ==
  /\ LineEnd' = le
  /\ op' = "LineEnd"
  /\ arg' = NilV
  /\ ret' = Result(<<>>, NoErr)
  /\ pending' = buf
  /\ written' = <<>>
  /\ delivered' = <<>>
  /\ UNCHANGED <<buf, asm>>

\* the Encoder and the sink after enc.Encode(v) returned r
EncodeReturns(v, r) ==
  /\ buf' = r.w.buf
  /\ op' = "Encode"
  /\ arg' = v
  /\ ret' = Result(<<>>, r.err)
  /\ pending' = buf
  /\ written' = r.w.log
  /\ delivered' = r.w.out
  /\ UNCHANGED <<LineEnd, asm>>

\* enc.Encode(v)
EncodeCall(v) == EncodeReturns(v, Encode(Writer(buf), LineEnd, v))

\* the sink after Marshal(v) returned r
MarshalReturns(v, r) ==
  /\ op' = "Marshal"
  /\ arg' = v
  /\ ret' = r.ret
  /\ pending' = <<>>
  /\ written' = r.w.log
  /\ delivered' = r.w.out
  /\ UNCHANGED <<LineEnd, buf, asm>>

\* Marshal(v)
MarshalCall(v) == MarshalReturns(v, Marshal(v))

\* newValueEncoder(reflect.TypeOf(v))(reflect.ValueOf(v))
ValueEncoderCall(v) ==
  /\ op' = "newValueEncoder"
  /\ arg' = v
  /\ ret' = newValueEncoder(v.type, v)
  /\ asm' = assembly(v)
  /\ pending' = <<>>
  /\ written' = <<>>
  /\ delivered' = <<>>
  /\ UNCHANGED <<LineEnd, buf>>

Init ==
  /\ LineEnd = <<LF>>
  /\ buf = <<>>
  /\ op = "NewEncoder"
  /\ arg = NilV
  /\ ret = Result(<<>>, NoErr)
  /\ pending = <<>>
  /\ written = <<>>
  /\ delivered = <<>>
  /\ asm = NoAsm

Renew == NewEncoder
AssignLineEnd == \E le \in LineEnds : SetLineEnd(le)
EncodeStream == \E v \in StreamInputs : EncodeCall(v)
MarshalStream == \E v \in StreamInputs : MarshalCall(v)

Next == Renew \/ AssignLineEnd \/ EncodeStream \/ MarshalStream

\* An Encoder over its life: constructed, configured, and used for any
\* number of Encode calls; Marshal beside it.
Spec == Init /\ [][Next]_vars

\* The conversion of one value: the input is drawn, then newValueEncoder or
\* Marshal is applied to it.
InitValue ==
  /\ LineEnd = <<LF>>
  /\ buf = <<>>
  /\ op = "none"
  /\ arg \in ValueInputs
  /\ ret = Result(<<>>, NoErr)
  /\ pending = <<>>
  /\ written = <<>>
  /\ delivered = <<>>
  /\ asm = NoAsm

ApplyEncoder == op = "none" /\ ValueEncoderCall(arg)
ApplyMarshal == op = "none" /\ MarshalCall(arg)

NextValue == ApplyEncoder \/ ApplyMarshal

SpecValue == InitValue /\ [][NextValue]_vars

\* ------------------------------------------------------------ the claims

\* The columns a well-formed tag names, read off the tag's construction.
TagStart(tag) ==
  CHOOSE a \in 1..MaxPos : \E b \in 1..MaxPos, lp \in BOOLEAN : TagOf(a, b, lp) = tag
TagEnd(tag) ==
  CHOOSE b \in 1..MaxPos : \E a \in 1..MaxPos, lp \in BOOLEAN : TagOf(a, b, lp) = tag

\* the last call gave a plain struct (not a self-serializing one) to newValueEncoder
StructCall == op = "newValueEncoder" /\ arg.type.kind = "Struct" /\ ~arg.type.tm

\* the fields of the struct whose position tag is well formed
Accepted == {i \in 1..Len(arg.type.fields) : arg.type.fields[i].tag \in ValidTags}

Width(sp) == sp.endPos - sp.startPos + 1

\* the columns the copy of fieldSpec sp writes
Copied(sp) == {p \in sp.startPos..sp.endPos : p - sp.startPos + 1 <= Len(sp.value)}

RECURSIVE Pointee(_)
\* a declared type with its pointer layers removed
Pointee(t) == IF t.kind = "Ptr" THEN Pointee(t.elem[1]) ELSE t

\* the fill byte the padding policy gives a declared type
ExpectedFill(t) ==
  IF ~Pointee(t).tm /\ Pointee(t).kind \in IntKinds \cup FloatKinds THEN "0" ELSE SP

\* C2: every accepted field copies only the leading min(len(value), width)
\* bytes of its (possibly padded) value into the line buffer, from startPos
\* on; a longer value is cut to width bytes without an error; no column
\* outside the field's range changes; the buffer after the last copy is the
\* line returned.
C2_TruncatingCopy ==
  (StructCall /\ ret.err = NoErr) =>
    /\ Len(asm.steps) = Len(asm.specs) + 1
    /\ ret.bytes = asm.steps[Len(asm.steps)]
    /\ \A k \in 1..Len(asm.specs) :
         LET sp     == asm.specs[k]
             before == asm.steps[k]
             after  == asm.steps[k + 1]
             m      == Min(Len(sp.value), Width(sp))
         IN /\ Len(after) = Len(before)
            /\ \A p \in 1..Len(after) :
                 IF p >= sp.startPos /\ p < sp.startPos + m
                 THEN after[p] = sp.value[p - sp.startPos + 1]
                 ELSE after[p] = before[p]

\* a value longer than its field was copied, and the column after the
\* field kept another byte than the value's next one
C2_Witness ==
  /\ StructCall /\ ret.err = NoErr
  /\ \E k \in 1..Len(asm.specs) :
       LET sp == asm.specs[k] IN
         /\ Len(sp.value) > Width(sp)
         /\ sp.endPos < Len(asm.steps[k + 1])
         /\ asm.steps[k + 1][sp.endPos + 1] # sp.value[Width(sp) + 1]

SetMax(S) == IF S = {} THEN 0 ELSE CHOOSE m \in S : \A n \in S : n <= m

\* C4: the line of a struct is as long as the largest endPos among the
\* fields with a well-formed tag (0 when there is none); the fields with
\* no tag or a malformed one are skipped, raise no error and change no
\* byte, so the fieldSpecs are exactly those of the well-formed tags, in
\* order; every column no copied byte covers holds a space, so a field
\* without leftpad is left-aligned.
C4_LineBuffer ==
  StructCall =>
    /\ Accepted = {} => ret = Result(<<>>, NoErr)
    /\ ret.err # NoErr =>
         \E i \in Accepted :
           newValueEncoder(arg.type.fields[i].type, arg.items[i]).err = ret.err
    /\ ret.err = NoErr =>
         /\ Len(ret.bytes) = SetMax({TagEnd(arg.type.fields[i].tag) : i \in Accepted})
         /\ {asm.specs[k].field : k \in 1..Len(asm.specs)} = Accepted
         /\ \A k \in 1..Len(asm.specs) :
              LET sp == asm.specs[k] IN
                /\ \A j \in 1..(k - 1) : asm.specs[j].field < sp.field
                /\ sp.startPos = TagStart(arg.type.fields[sp.field].tag)
                /\ sp.endPos = TagEnd(arg.type.fields[sp.field].tag)
                /\ ~sp.leftpad => sp.value = sp.raw
         /\ \A p \in 1..Len(ret.bytes) :
              (\A k \in 1..Len(asm.specs) : p \notin Copied(asm.specs[k]))
                => ret.bytes[p] = SP

\* a struct with a skipped field beside an accepted one, whose line ends
\* in a space no field wrote
C4_Witness ==
  /\ StructCall /\ ret.err = NoErr
  /\ Accepted # {}
  /\ \E i \in 1..Len(arg.type.fields) : i \notin Accepted
  /\ ret.bytes[Len(ret.bytes)] = SP
  /\ \A k \in 1..Len(asm.specs) : Len(ret.bytes) \notin Copied(asm.specs[k])

\* field i of the struct is declared a pointer or an interface and is nil
NilField(i) ==
  /\ arg.type.fields[i].type.kind \in {"Ptr", "Interface"}
  /\ arg.items[i].isNil

\* the columns of fieldSpec k that no other fieldSpec's copy writes
OwnColumns(k) ==
  {p \in asm.specs[k].startPos..asm.specs[k].endPos :
     \A j \in 1..Len(asm.specs) : j # k => p \notin Copied(asm.specs[j])}

RECURSIVE Unsupported(_)
\* v is, or holds behind pointers, interfaces and accepted struct fields, a
\* value of a shape with no conversion
Unsupported(v) ==
  IF v.type.tm THEN FALSE
  ELSE IF v.type.kind \in {"Ptr", "Interface"}
       THEN ~v.isNil /\ Unsupported(v.elem[1])
  ELSE IF v.type.kind = "Struct"
       THEN \E i \in 1..Len(v.items) :
              v.type.fields[i].tag \in ValidTags /\ Unsupported(v.items[i])
  ELSE v.type.kind \notin {"Nil", "String"} \cup IntKinds \cup FloatKinds

RECURSIVE OtherFailure(_)
\* v is, or holds in the same way, a self-serializing value whose
\* MarshalText fails or cannot be called
OtherFailure(v) ==
  IF v.type.tm
  THEN IF v.type.kind = "Ptr" THEN v.isNil \/ v.elem[1].err # NoErr
       ELSE v.err # NoErr
  ELSE IF v.type.kind \in {"Ptr", "Interface"}
       THEN ~v.isNil /\ OtherFailure(v.elem[1])
  ELSE IF v.type.kind = "Struct"
       THEN \E i \in 1..Len(v.items) :
              v.type.fields[i].tag \in ValidTags /\ OtherFailure(v.items[i])
  ELSE FALSE

\* the last call converted arg as one line
LineCall ==
  \/ op = "newValueEncoder"
  \/ op = "Marshal" /\ arg.type.kind # "Nil" /\ unwrap(arg).type.kind # "Slice"

TextSourceOf(v) == IF v.type.kind = "Ptr" THEN v.elem[1] ELSE v
TextSource == TextSourceOf(arg)

\* C8: a value whose type implements TextMarshaler is encoded as the bytes
\* MarshalText returns, before any built-in handling of its kind (a struct
\* with tagged fields, a scalar), and the error MarshalText returns is
\* returned unchanged by the encoder and by Marshal (through Encode).
C8_TextMarshalerFirst ==
  /\ ( /\ arg.type.tm /\ ~(arg.type.kind = "Ptr" /\ arg.isNil)
       /\ \/ op = "newValueEncoder"
          \/ op = "Marshal" /\ Pointee(arg.type).kind # "Slice" )
       => ret = IF TextSource.err = NoErr THEN Result(TextSource.s, NoErr)
                ELSE Result(<<>>, TextSource.err)
  /\ (StructCall /\ ret.err = NoErr) =>
       \A k \in 1..Len(asm.specs) :
         arg.type.fields[asm.specs[k].field].type.tm
           => asm.specs[k].raw = TextSourceOf(arg.items[asm.specs[k].field]).s

\* Marshal returned the error of the MarshalText of a struct with a tagged field
C8_Witness ==
  /\ op = "Marshal"
  /\ arg.type.tm /\ arg.type.kind = "Struct" /\ Len(arg.type.fields) > 0
  /\ arg.err = MarshalErr
  /\ ret = Result(<<>>, MarshalErr)

\* the last call gave Encode or Marshal a sequence
StreamCall ==
  /\ op \in {"Encode", "Marshal"}
  /\ arg.type.kind # "Nil"
  /\ unwrap(arg).type.kind = "Slice"

\* the elements of the sequence, and the encoding of element i
Items == unwrap(arg).items
LineOf(i) == newValueEncoder(Items[i].type, Items[i])

AllEncode == \A i \in 1..Len(Items) : LineOf(i).err = NoErr

\* the first element that does not encode
FirstFailing ==
  CHOOSE k \in 1..Len(Items) :
    LineOf(k).err # NoErr /\ \A i \in 1..(k - 1) : LineOf(i).err = NoErr

RECURSIVE Joined(_, _)
\* line_1 sep line_2 ... sep line_n
Joined(n, sep) ==
  IF n = 0 THEN <<>>
  ELSE IF n = 1 THEN LineOf(1).bytes
  ELSE Joined(n - 1, sep) \o sep \o LineOf(n).bytes

RECURSIVE Terminated(_, _)
\* line_1 sep ... line_n sep
Terminated(n, sep) ==
  IF n = 0 THEN <<>> ELSE Terminated(n - 1, sep) \o LineOf(n).bytes \o sep

Separator ==
  IF op = "Marshal" \/ LineEnd = <<>> THEN <<LF>> ELSE LineEnd

\* C6: when element k is the first whose encoding fails, Encode returns
\* that element's error; what was written is the lines before k, each
\* followed by the terminator, and nothing of k or after it; those bytes
\* are not retracted (they are in the sink or buffered in the Encoder);
\* Marshal returns the error and no bytes.
C6_FirstFailureAborts ==
  (StreamCall /\ ~AllEncode) =>
    /\ ret.err = LineOf(FirstFailing).err
    /\ written = Terminated(FirstFailing - 1, Separator)
    /\ op = "Encode" => delivered \o buf = pending \o written
    /\ op = "Marshal" => ret.bytes = <<>>

\* Encode stopped at a second element whose MarshalText failed, the first
\* line and its terminator written
C6_Witness ==
  /\ op = "Encode" /\ StreamCall /\ ~AllEncode
  /\ FirstFailing = 2
  /\ ret.err = MarshalErr
  /\ written = LineOf(1).bytes \o Separator
  /\ buf # <<>>

\* C9 as stated: whatever LineEnd holds, the empty byte sequence included,
\* the bytes between consecutive lines are exactly LineEnd.
C9_SeparatorIsLineEnd ==
  (op = "Encode" /\ StreamCall /\ AllEncode) =>
    written = Joined(Len(Items), LineEnd)

\* C9 amended: a non-empty LineEnd is the separator; an empty LineEnd, like
\* one never assigned, gives a single linefeed.
C9_SeparatorOrLinefeed ==
  (op = "Encode" /\ StreamCall /\ AllEncode) =>
    /\ ret.err = NoErr
    /\ written = Joined(Len(Items), IF LineEnd = <<>> THEN <<LF>> ELSE LineEnd)

\* two lines were written around a two-byte LineEnd
C9_Witness ==
  /\ op = "Encode" /\ StreamCall /\ AllEncode
  /\ Len(Items) = 2
  /\ LineEnd = <<"\r", LF>>
  /\ written = LineOf(1).bytes \o <<"\r", LF>> \o LineOf(2).bytes

====
